---- MODULE Spec2Model ----
(***************************************************************************)
(* Model of the two notebooks of mda_text_to_sql_langchain_bedrock.ipynb.  *)
(*                                                                         *)
(* Notebook 1 (text to SQL): code cell 7 starts the Glue crawler and polls *)
(* its status, cell 8 connects to Athena, cell 9 flattens the Glue Data    *)
(* Catalog into glue_catalog, cells 10-12 define and run identify_channel  *)
(* and run_query.                                                          *)
(* Notebook 2 (fine tuning): a linear script that loads the instruction    *)
(* dataset, formats it with _add_text, tokenizes and filters it, trains a  *)
(* LoRA adapter, packs the adapter into lora_model.tar.gz and uploads it.  *)
(*                                                                         *)
(* Python strings are modelled as sequences: a completion of the language  *)
(* model is a sequence of characters, the catalog string is a sequence of  *)
(* tokens (names, "|" and "\n").                                           *)
(***************************************************************************)
EXTENDS Integers, Sequences, FiniteSets, TLC

VARIABLES
    pc,               \* position of the kernel in notebook 1
    crawlerState,     \* State of the Glue crawler, as Glue holds it
    status,           \* cell 7: the last status read by get_crawler
    polls,            \* cell 7: number of get_crawler calls made
    sleeps,           \* cell 7: number of time.sleep calls completed
    elapsed,          \* cell 7: seconds spent in time.sleep
    printed,          \* cell 7: the messages printed so far
    cellExc,          \* the exception that left the last cell run ("none")
    gdc,              \* cell 8: list of database names
    glue,             \* TableList that get_tables answers for the database
    glue_catalog,     \* cell 9: the catalog string
    parseCalls,       \* number of parse_catalog calls made
    query,            \* cell 12: the question
    generated_texts,  \* identify_channel: completion of the language model
    idResult,         \* identify_channel: what the call ended with
    channel,          \* run_query local
    db,               \* run_query local
    response,         \* run_query: the value returned
    llmCalls,         \* calls of llm_chain.run in the current run_query
    chainRuns,        \* calls of db_chain.run in the current run_query
    prev,             \* record of the previous identify_channel call
    sagemaker_faqs_dataset,  \* notebook 2: the instruction dataset
    mapOut,           \* notebook 2: records returned to map so far
    rec,              \* notebook 2: the record of the last _add_text call
    addExc,           \* notebook 2: exception raised by the last _add_text
    nbpc,             \* position of the kernel in notebook 2
    encoded_sagemaker_faqs_dataset,  \* notebook 2: the tokenized dataset
    processed_dataset,  \* notebook 2: the tokenized dataset after the filter
    files,            \* notebook 2: the working directory, path to content
    archive,          \* notebook 2: lora_model.tar.gz, member to content
    bucket_list,      \* notebook 2: names answered by list_buckets
    uploads,          \* notebook 2: the upload_file calls that succeeded
    stageExc,         \* notebook 2: exception that left a cell after the map
    stages            \* notebook 2: the stages completed, in order

vars == <<pc, crawlerState, status, polls, sleeps, elapsed, printed, cellExc,
          gdc, glue, glue_catalog, parseCalls, query, generated_texts, idResult, channel,
          db, response, llmCalls, chainRuns, prev, sagemaker_faqs_dataset, mapOut,
          rec, addExc, nbpc, encoded_sagemaker_faqs_dataset, processed_dataset,
          files, archive, bucket_list, uploads, stageExc, stages>>

crawlerVars == <<crawlerState, status, polls, sleeps, elapsed, printed>>
catalogVars == <<gdc, glue, glue_catalog, parseCalls>>
queryVars   == <<query, generated_texts, idResult, channel, db, response,
                 llmCalls, chainRuns>>
mapVars     == <<sagemaker_faqs_dataset, mapOut, rec, addExc>>
tokenVars   == <<encoded_sagemaker_faqs_dataset, processed_dataset>>
deployVars  == <<files, archive, bucket_list, uploads>>
nb2Vars     == <<mapVars, nbpc, tokenVars, deployVars, stageExc, stages>>
nb1Vars     == <<pc, crawlerVars, cellExc, catalogVars, queryVars, prev>>

(***************************************************************************)
(* Bounds of the model.                                                    *)
(***************************************************************************)
MaxFrags  == 3   \* fragments a completion is made of
MaxPolls  == 6   \* get_crawler calls followed
MaxTables == 2   \* tables in a TableList
MaxCols   == 2   \* columns of a table
MaxRecs   == 2   \* records of the instruction dataset
MaxBuckets == 2  \* buckets that list_buckets answers
MaxReruns == 2   \* times the artifact directory cell is run again

\* time.sleep(10)
SleepSeconds == 10

(***************************************************************************)
(* Strings.                                                                *)
(***************************************************************************)
\* Python's  sub in text  for strings: text has sub as a contiguous slice.
Contains(sub, text) ==
    \E i \in 1..(Len(text) - Len(sub) + 1) :
        SubSeq(text, i, i + Len(sub) - 1) = sub

\* Python's  text.startswith(sub)
StartsWith(text, sub) ==
    /\ Len(sub) <= Len(text)
    /\ SubSeq(text, 1, Len(sub)) = sub

RECURSIVE Flatten(_)
Flatten(ss) == IF ss = <<>> THEN <<>> ELSE Head(ss) \o Flatten(Tail(ss))

SeqsUpTo(S, n) == UNION {[1..k -> S] : k \in 0..n}

KeyS3  == <<"s", "3">>
KeyApi == <<"a", "p", "i">>

\* Pieces the completions of the language model are assembled from.
Fragments == { KeyS3, KeyApi, <<"S", "3">>, <<"A", "P", "I">>,
               <<"a", "p">>, <<"i">>, <<"c">> }

Completions == { Flatten(fs) : fs \in SeqsUpTo(Fragments, MaxFrags) }

Queries == {"how many books", "find 3 books"}

Responses == {"answer 1", "answer 2"}

(***************************************************************************)
(* Exceptions: a type and the parts of the message.                        *)
(***************************************************************************)
NoExc == [type |-> "none", msg |-> <<>>]

Raised(type, msg) == [type |-> type, msg |-> msg]

MsgNoChannel ==
    <<"User question cannot be answered by any of the channels mentioned in the catalog">>

MsgUnlisted == <<"Unlisted channel. Check your unified catalog">>

(***************************************************************************)
(* Code cell 8 and the Glue Data Catalog.                                  *)
(***************************************************************************)
schemaathena == "library_db"

DbNames == {schemaathena}

TableNames == {"t1", "t2"}

ColNames == {"c1", "c2"}

S3Location == <<"s", "3", ":", "/", "/">>

JdbcLocation == <<"j", "d", "b", "c", ":">>

\* Location and Parameters of a table: a crawled S3 table, a JDBC table with
\* a classification, and a table that has neither.
TableKinds ==
    { [Location |-> S3Location,   Parameters |-> {<<"classification", "json">>}],
      [Location |-> JdbcLocation, Parameters |-> {<<"classification", "mysql">>}],
      [Location |-> JdbcLocation, Parameters |-> {}] }

MkTable(d, n, kind, cols) ==
    [ DatabaseName      |-> d,
      Name              |-> n,
      StorageDescriptor |-> [ Location |-> kind.Location,
                              Columns  |-> [i \in DOMAIN cols |-> [Name |-> cols[i]]] ],
      Parameters        |-> kind.Parameters ]

Tables(d) ==
    { MkTable(d, n, kind, cols) :
        n \in TableNames, kind \in TableKinds, cols \in SeqsUpTo(ColNames, MaxCols) }

\* The answers get_tables can give for database d.
TableLists(d) == SeqsUpTo(Tables(d), MaxTables)

\* The few catalogs a query session is followed with.
SessionTableLists(d) ==
    { <<>>,
      << MkTable(d, "t1", CHOOSE k \in TableKinds : k.Location = S3Location, <<"c1">>) >>,
      << MkTable(d, "t1", CHOOSE k \in TableKinds : k.Parameters = {}, <<"c1">>) >> }

HasKey(params, key) == \E kv \in params : kv[1] = key

\* glue_client.get_tables(DatabaseName=d)
GetTables(d) == [TableList |-> glue[d]]

(***************************************************************************)
(* Code cell 9: parse_catalog.                                             *)
(***************************************************************************)
\* columns_str = 'database|table|column_name'
Header == <<"database", "|", "table", "|", "column_name">>

\* f'\n{dbname}|{tblname}|{colname}'
CatalogLine(dbname, tblname, colname) ==
    <<"\n", dbname, "|", tblname, "|", colname>>

\* glue_catalog before cell 9 has assigned it.
Unassigned == <<"<undefined>">>

\* Variant: a line that the string already holds is not added again.
RECURSIVE AppendColumnsUnique(_, _, _)
AppendColumnsUnique(tables, columns, columns_str) ==
    IF columns = <<>>
    THEN columns_str
    ELSE LET line == CatalogLine(tables.DatabaseName, tables.Name,
                                 Head(columns).Name)
         IN  AppendColumnsUnique(tables, Tail(columns),
                 IF Contains(line, columns_str)
                 THEN columns_str
                 ELSE columns_str \o line)

\* for columns in tables['StorageDescriptor']['Columns']: ...
RECURSIVE AppendColumns(_, _, _)
AppendColumns(tables, columns, columns_str) ==
    IF columns = <<>>
    THEN columns_str
    ELSE AppendColumns(tables, Tail(columns),
                       columns_str \o CatalogLine(tables.DatabaseName,
                                                  tables.Name,
                                                  Head(columns).Name))

\* Variant: a table without a classification is passed over.
ClassificationNeverFails(tables) == FALSE

\* The classification lookup of a table raises KeyError when the location
\* does not start with 's3' and Parameters has no 'classification'.
ClassificationFails(tables) ==
    /\ ~StartsWith(tables.StorageDescriptor.Location, KeyS3)
    /\ ~HasKey(tables.Parameters, "classification")

\* for tables in response['TableList']: ...
RECURSIVE ParseTableList(_, _)
ParseTableList(TableList, st) ==
    IF TableList = <<>> \/ st.exc # NoExc
    THEN st
    ELSE LET tables == Head(TableList) IN
         IF ClassificationFails(tables)
         THEN [st EXCEPT !.exc = Raised("KeyError", <<"classification">>)]
         ELSE ParseTableList(Tail(TableList),
                  [st EXCEPT !.columns_str =
                      AppendColumns(tables, tables.StorageDescriptor.Columns,
                                    st.columns_str)])

\* for db in gdc: response = glue_client.get_tables(DatabaseName=db) ...
RECURSIVE ParseDatabases(_, _)
ParseDatabases(dbs, st) ==
    IF dbs = <<>> \/ st.exc # NoExc
    THEN st
    ELSE ParseDatabases(Tail(dbs),
                        ParseTableList(GetTables(Head(dbs)).TableList, st))

\* parse_catalog(): the string returned, or the exception raised.
parse_catalog == ParseDatabases(gdc, [exc |-> NoExc, columns_str |-> Header])

(***************************************************************************)
(* Code cell 10: identify_channel.                                         *)
(***************************************************************************)
dbathena == "dbathena"

Unbound == "<unbound>"

\* str.lower() on the characters the completions are written with.
Lower(text) ==
    [i \in 1..Len(text) |->
        CASE text[i] = "S" -> "s"
          [] text[i] = "A" -> "a"
          [] text[i] = "P" -> "p"
          [] text[i] = "I" -> "i"
          [] OTHER -> text[i]]

\* Variant: the completion is lower-cased before the tests.
SetChannelIgnoreCase(text) ==
    IF Contains(KeyS3, Lower(text))
    THEN [channel |-> "db", db |-> dbathena, exc |-> NoExc]
    ELSE IF Contains(KeyApi, Lower(text))
         THEN [channel |-> "api", db |-> Unbound, exc |-> NoExc]
         ELSE [channel |-> Unbound, db |-> Unbound,
               exc |-> Raised("Exception", MsgNoChannel)]

\* Variant: the 'api' test comes first.
SetChannelApiFirst(text) ==
    IF Contains(KeyApi, text)
    THEN [channel |-> "api", db |-> Unbound, exc |-> NoExc]
    ELSE IF Contains(KeyS3, text)
         THEN [channel |-> "db", db |-> dbathena, exc |-> NoExc]
         ELSE [channel |-> Unbound, db |-> Unbound,
               exc |-> Raised("Exception", MsgNoChannel)]

\* Variant: an unmatched completion falls back to the warehouse channel.
SetChannelDefault(text) ==
    IF Contains(KeyS3, text)
    THEN [channel |-> "db", db |-> dbathena, exc |-> NoExc]
    ELSE IF Contains(KeyApi, text)
         THEN [channel |-> "api", db |-> Unbound, exc |-> NoExc]
         ELSE [channel |-> "db", db |-> dbathena, exc |-> NoExc]

\* Variant: 's3' counts only when the catalog lists a column.
SetChannelValidated(text) ==
    IF Contains(KeyS3, text) /\ Len(glue_catalog) > Len(Header)
    THEN [channel |-> "db", db |-> dbathena, exc |-> NoExc]
    ELSE IF Contains(KeyApi, text)
         THEN [channel |-> "api", db |-> Unbound, exc |-> NoExc]
         ELSE [channel |-> Unbound, db |-> Unbound,
               exc |-> Raised("Exception", MsgNoChannel)]

\* if 's3' in generated_texts: ... elif 'api' in generated_texts: ...
\* else: raise Exception(...)
SetChannel(text) ==
    IF Contains(KeyS3, text)
    THEN [channel |-> "db", db |-> dbathena, exc |-> NoExc]
    ELSE IF Contains(KeyApi, text)
         THEN [channel |-> "api", db |-> Unbound, exc |-> NoExc]
         ELSE [channel |-> Unbound, db |-> Unbound,
               exc |-> Raised("Exception", MsgNoChannel)]

\* Variant: the return hands back whatever the locals hold.
ReturnChannelUnchecked(loc) == loc

\* return channel, db: reading a local that was never assigned raises
\* UnboundLocalError.
ReturnChannel(loc) ==
    IF loc.exc # NoExc
    THEN loc
    ELSE IF loc.channel = Unbound \/ loc.db = Unbound
         THEN [loc EXCEPT !.exc = Raised("UnboundLocalError", <<"db">>)]
         ELSE loc

(***************************************************************************)
(* Code cell 7: start the crawler and poll its status.                     *)
(***************************************************************************)
CrawlerStates == {"READY", "RUNNING", "STOPPING"}

MsgAbout   == "About to start running the crawler"
MsgStarted == "Successfully started crawler"
MsgStatus  == "Crawler status"
MsgError   == "error in starting crawler. Check the logs for the error details."

\* Variant: a failure of start_crawler is not caught.
Cell7StartUncaught ==
    /\ pc = "cell7"
    /\ \/ /\ crawlerState = "READY"
          /\ crawlerState' = "RUNNING"
          /\ printed' = printed \cup {MsgAbout, MsgStarted}
          /\ cellExc' = NoExc
          /\ pc' = "polling"
       \/ /\ crawlerState' = crawlerState
          /\ printed' = printed \cup {MsgAbout}
          /\ cellExc' = Raised("ClientError", <<>>)
          /\ pc' = "cell8"
    /\ UNCHANGED <<status, polls, sleeps, elapsed, catalogVars, queryVars,
                   prev, nb2Vars>>

\* print(...); try: response = client.start_crawler(...); print(...)
\* except: print(...)
\* Glue starts a crawler only when it is READY; the call can also fail for
\* other reasons (no such crawler, no permission, throttling).
Cell7Start ==
    /\ pc = "cell7"
    /\ \/ /\ crawlerState = "READY"
          /\ crawlerState' = "RUNNING"
          /\ printed' = printed \cup {MsgAbout, MsgStarted}
          /\ pc' = "polling"
       \/ /\ crawlerState' = crawlerState
          /\ printed' = printed \cup {MsgAbout, MsgError}
          /\ pc' = "cell8"
    /\ cellExc' = NoExc
    /\ UNCHANGED <<status, polls, sleeps, elapsed, catalogVars, queryVars,
                   prev, nb2Vars>>

\* Variant: the loop ends on READY.
Cell7PollUntilReady ==
    /\ pc = "polling"
    /\ polls < MaxPolls
    /\ polls' = polls + 1
    /\ \/ /\ status' = crawlerState
          /\ printed' = printed \cup {MsgStatus}
          /\ pc' = IF status' = "READY" THEN "cell8" ELSE "sleeping"
       \/ /\ status' = status
          /\ printed' = printed \cup {MsgError}
          /\ pc' = "cell8"
    /\ UNCHANGED <<crawlerState, sleeps, elapsed, cellExc, catalogVars,
                   queryVars, prev, nb2Vars>>

\* Variant: an exception of get_crawler leaves the cell.
Cell7PollUncaught ==
    /\ pc = "polling"
    /\ polls < MaxPolls
    /\ polls' = polls + 1
    /\ \/ /\ status' = crawlerState
          /\ printed' = printed \cup {MsgStatus}
          /\ pc' = IF status' = "STOPPING" THEN "cell8" ELSE "sleeping"
          /\ UNCHANGED cellExc
       \/ /\ status' = status
          /\ cellExc' = Raised("ClientError", <<>>)
          /\ pc' = "cell8"
          /\ UNCHANGED printed
    /\ UNCHANGED <<crawlerState, sleeps, elapsed, catalogVars,
                   queryVars, prev, nb2Vars>>

\* One turn of  while True:  up to the break or the sleep.
Cell7Poll ==
    /\ pc = "polling"
    /\ polls < MaxPolls
    /\ polls' = polls + 1
    /\ \/ /\ status' = crawlerState
          /\ printed' = printed \cup {MsgStatus}
          /\ pc' = IF status' = "STOPPING" THEN "cell8" ELSE "sleeping"
       \/ /\ status' = status
          /\ printed' = printed \cup {MsgError}
          /\ pc' = "cell8"
    /\ UNCHANGED <<crawlerState, sleeps, elapsed, cellExc, catalogVars,
                   queryVars, prev, nb2Vars>>

\* time.sleep(10)
Cell7Sleep ==
    /\ pc = "sleeping"
    /\ sleeps' = sleeps + 1
    /\ elapsed' = elapsed + SleepSeconds
    /\ pc' = "polling"
    /\ UNCHANGED <<crawlerState, status, polls, printed, cellExc, catalogVars,
                   queryVars, prev, nb2Vars>>

\* The crawler's own progress: RUNNING, then STOPPING, then READY.  No cell
\* after cell 7 reads the state, so it is followed while cell 7 runs.
CrawlerAdvance ==
    /\ pc \in {"polling", "sleeping"}
    /\ crawlerState \in {"RUNNING", "STOPPING"}
    /\ crawlerState' = IF crawlerState = "RUNNING" THEN "STOPPING" ELSE "READY"
    /\ UNCHANGED <<pc, status, polls, sleeps, elapsed, printed, cellExc,
                   catalogVars, queryVars, prev, nb2Vars>>

(***************************************************************************)
(* Code cells 8 and 9.                                                     *)
(***************************************************************************)
\* gdc = [schemaathena]
Cell8 ==
    /\ pc = "cell8"
    /\ gdc' = <<schemaathena>>
    /\ pc' = "cell9"
    /\ UNCHANGED <<crawlerVars, cellExc, glue, glue_catalog, parseCalls,
                   queryVars, prev, nb2Vars>>

\* glue_catalog = parse_catalog()
Cell9 ==
    /\ pc = "cell9"
    /\ LET r == parse_catalog IN
         /\ cellExc' = r.exc
         /\ glue_catalog' = IF r.exc = NoExc THEN r.columns_str ELSE glue_catalog
    /\ parseCalls' = parseCalls + 1
    /\ pc' = "cell12"
    /\ UNCHANGED <<crawlerVars, gdc, glue, queryVars, prev, nb2Vars>>

(***************************************************************************)
(* Code cells 10 to 12: run_query and identify_channel.                    *)
(***************************************************************************)
\* Variant: identify_channel harvests the catalog again for its prompt.
CallLLMReparsing(answers) ==
    /\ pc = "cell12"
    /\ \E q \in Queries : query' = q
    /\ glue_catalog' = IF parse_catalog.exc = NoExc
                       THEN parse_catalog.columns_str
                       ELSE glue_catalog
    /\ parseCalls' = parseCalls + 1
    /\ IF glue_catalog = Unassigned
       THEN /\ cellExc' = Raised("NameError", <<"glue_catalog">>)
            /\ pc' = "done"
            /\ UNCHANGED <<generated_texts, llmCalls>>
       ELSE /\ llmCalls' = llmCalls + 1
            /\ \/ /\ \E text \in answers : generated_texts' = text
                  /\ cellExc' = NoExc
                  /\ pc' = "llm_returned"
               \/ /\ cellExc' = Raised("BedrockError", <<>>)
                  /\ pc' = "done"
                  /\ UNCHANGED generated_texts
    /\ UNCHANGED <<crawlerVars, gdc, glue, idResult, channel, db, response,
                   chainRuns, nb2Vars>>

\* Variant: a failed call of the model is tried a second time.
CallLLMRetry(answers) ==
    /\ pc = "cell12"
    /\ \E q \in Queries : query' = q
    /\ IF glue_catalog = Unassigned
       THEN /\ cellExc' = Raised("NameError", <<"glue_catalog">>)
            /\ pc' = "done"
            /\ UNCHANGED <<generated_texts, llmCalls>>
       ELSE \/ /\ llmCalls' = llmCalls + 1
               /\ \E text \in answers : generated_texts' = text
               /\ cellExc' = NoExc
               /\ pc' = "llm_returned"
            \/ /\ llmCalls' = llmCalls + 2
               /\ \E text \in answers : generated_texts' = text
               /\ cellExc' = NoExc
               /\ pc' = "llm_returned"
            \/ /\ llmCalls' = llmCalls + 2
               /\ cellExc' = Raised("BedrockError", <<>>)
               /\ pc' = "done"
               /\ UNCHANGED generated_texts
    /\ UNCHANGED <<crawlerVars, catalogVars, idResult, channel, db, response,
                   chainRuns, nb2Vars>>

\* run_query(query) enters identify_channel: the prompt is built from
\* glue_catalog and llm_chain.run(query) is called; answers are the
\* completions the model can give.
CallLLM(answers) ==
    /\ pc = "cell12"
    /\ \E q \in Queries : query' = q
    /\ IF glue_catalog = Unassigned
       THEN /\ cellExc' = Raised("NameError", <<"glue_catalog">>)
            /\ pc' = "done"
            /\ UNCHANGED <<generated_texts, llmCalls>>
       ELSE /\ llmCalls' = llmCalls + 1
            /\ \/ /\ \E text \in answers : generated_texts' = text
                  /\ cellExc' = NoExc
                  /\ pc' = "llm_returned"
               \/ /\ cellExc' = Raised("BedrockError", <<>>)
                  /\ pc' = "done"
                  /\ UNCHANGED generated_texts
    /\ UNCHANGED <<crawlerVars, catalogVars, idResult, channel, db, response,
                   chainRuns, nb2Vars>>

\* The rest of identify_channel, and  channel, db = identify_channel(query)
\* in run_query, which assigns only when the call returned.
SelectChannel ==
    /\ pc = "llm_returned"
    /\ LET r == ReturnChannel(SetChannel(generated_texts)) IN
         /\ idResult' = [called |-> TRUE, channel |-> r.channel, db |-> r.db,
                         exc |-> r.exc]
         /\ channel' = IF r.exc = NoExc THEN r.channel ELSE channel
         /\ db' = IF r.exc = NoExc THEN r.db ELSE db
         /\ cellExc' = r.exc
         /\ pc' = IF r.exc = NoExc THEN "identified" ELSE "done"
    /\ UNCHANGED <<crawlerVars, catalogVars, query, generated_texts, response,
                   llmCalls, chainRuns, nb2Vars>>

\* Variant: the chain is run a second time.
RunChainTwice ==
    /\ pc = "identified"
    /\ IF channel = "db"
       THEN /\ chainRuns' = chainRuns \o <<db, db>>
            /\ \/ /\ \E r \in Responses : response' = r
                  /\ cellExc' = NoExc
               \/ /\ cellExc' = Raised("ChainError", <<>>)
                  /\ UNCHANGED response
       ELSE /\ cellExc' = Raised("Exception", MsgUnlisted)
            /\ UNCHANGED <<response, chainRuns>>
    /\ pc' = "done"
    /\ UNCHANGED <<crawlerVars, catalogVars, query, generated_texts, idResult,
                   channel, db, llmCalls, prev, nb2Vars>>

\* if channel=='db': db_chain = ...; response=db_chain.run(query)
\* else: raise Exception(...)
\* return response
RunChain ==
    /\ pc = "identified"
    /\ IF channel = "db"
       THEN /\ chainRuns' = Append(chainRuns, db)
            /\ \/ /\ \E r \in Responses : response' = r
                  /\ cellExc' = NoExc
               \/ /\ cellExc' = Raised("ChainError", <<>>)
                  /\ UNCHANGED response
       ELSE /\ cellExc' = Raised("Exception", MsgUnlisted)
            /\ UNCHANGED <<response, chainRuns>>
    /\ pc' = "done"
    /\ UNCHANGED <<crawlerVars, catalogVars, query, generated_texts, idResult,
                   channel, db, llmCalls, prev, nb2Vars>>

NoResponse == "<none>"

NoQuery == "<none>"

NoResult == [called |-> FALSE, channel |-> Unbound, db |-> Unbound, exc |-> NoExc]

\* The locals of the finished run_query call are gone.
FreshCall ==
    /\ cellExc' = NoExc
    /\ query' = NoQuery
    /\ generated_texts' = <<>>
    /\ idResult' = NoResult
    /\ channel' = Unbound
    /\ db' = Unbound
    /\ response' = NoResponse
    /\ llmCalls' = 0
    /\ chainRuns' = <<>>

\* Code cell 12 is run again with another question.
Cell12Again ==
    /\ pc = "done"
    /\ pc' = "cell12"
    /\ FreshCall
    /\ UNCHANGED <<crawlerVars, catalogVars, prev, nb2Vars>>

IdentifyChannelLLM == CallLLM(Completions) /\ UNCHANGED prev

IdentifyChannelReturn == SelectChannel /\ UNCHANGED prev

(***************************************************************************)
(* Two identify_channel calls on one completion: the first call that got a *)
(* completion is recorded, and the model answers the next call with the    *)
(* same completion, while the question and the catalog may have changed.   *)
(***************************************************************************)
NoPrev == [set |-> FALSE, text |-> <<>>, result |-> NoResult,
           query |-> NoQuery, catalog |-> Unassigned]

Recorded ==
    IF idResult.called
    THEN [set |-> TRUE, text |-> generated_texts, result |-> idResult,
          query |-> query, catalog |-> glue_catalog]
    ELSE prev

ReplayLLM ==
    /\ CallLLM(IF prev.set THEN {prev.text} ELSE Completions)
    /\ UNCHANGED prev

ReplayReturn == SelectChannel /\ UNCHANGED prev

ReplayCell12 ==
    /\ pc = "done"
    /\ ~prev.set
    /\ pc' = "cell12"
    /\ FreshCall
    /\ prev' = Recorded
    /\ UNCHANGED <<crawlerVars, catalogVars, nb2Vars>>

\* Step 5: the data is changed and the catalog cells are run again.
RerunCatalogCells ==
    /\ pc = "done"
    /\ idResult.called
    /\ ~prev.set
    /\ glue' \in {[d \in DbNames |-> tl] : tl \in SessionTableLists(schemaathena)}
    /\ pc' = "cell8"
    /\ FreshCall
    /\ prev' = Recorded
    /\ UNCHANGED <<crawlerVars, gdc, glue_catalog, parseCalls, nb2Vars>>

(***************************************************************************)
(* Notebook 2, step 3.1: _add_text and the map over the dataset.           *)
(***************************************************************************)
None == "<None>"

InstructionValues == {None, "", "What is SageMaker?", "What is a notebook?"}

ResponseValues == {None, "", "A managed ML service."}

\* The 'text' field of a record that has none.
NoText == <<>>

\* Rows of the instruction dataset as loaded from the CSV file.
Rows ==
    [instruction : InstructionValues, response : ResponseValues, text : {NoText}]

\* Python's  not x  for a field: None and the empty string are false.
Falsy(x) == x \in {None, ""}

\* PROMPT: intro, instruction key, {instruction}, response key, {response},
\* end key.
PROMPT == <<"intro", "instruction_key", "{instruction}", "response_key",
            "{response}", "end_key">>

\* PROMPT.format(instruction=instruction, response=response)
Format(template, instr, resp) ==
    [i \in DOMAIN template |->
        IF template[i] = "{instruction}" THEN instr
        ELSE IF template[i] = "{response}" THEN resp
        ELSE template[i]]

\* Variant: the response is not checked.
AddTextNoResponseCheck(r) ==
    LET instr == r.instruction
        resp  == r.response
    IN  IF Falsy(instr)
        THEN [rec |-> r, returned |-> FALSE,
              exc |-> Raised("ValueError", <<"Expected an instruction in: ">>)]
        ELSE [rec |-> [r EXCEPT !.text = Format(PROMPT, instr, resp)],
              returned |-> TRUE, exc |-> NoExc]

\* Variant: the response is checked before the instruction.
AddTextResponseFirst(r) ==
    LET instr == r.instruction
        resp  == r.response
    IN  IF Falsy(resp)
        THEN [rec |-> r, returned |-> FALSE,
              exc |-> Raised("ValueError", <<"Expected a response in: ">>)]
        ELSE IF Falsy(instr)
        THEN [rec |-> r, returned |-> FALSE,
              exc |-> Raised("ValueError", <<"Expected an instruction in: ">>)]
        ELSE [rec |-> [r EXCEPT !.text = Format(PROMPT, instr, resp)],
              returned |-> TRUE, exc |-> NoExc]

\* _add_text(rec): the record as the call leaves it, the exception raised
\* and whether the record was returned.
AddText(r) ==
    LET instr == r.instruction
        resp  == r.response
    IN  IF Falsy(instr)
        THEN [rec |-> r, returned |-> FALSE,
              exc |-> Raised("ValueError", <<"Expected an instruction in: ">>)]
        ELSE IF Falsy(resp)
        THEN [rec |-> r, returned |-> FALSE,
              exc |-> Raised("ValueError", <<"Expected a response in: ">>)]
        ELSE [rec |-> [r EXCEPT !.text = Format(PROMPT, instr, resp)],
              returned |-> TRUE, exc |-> NoExc]

\* sagemaker_faqs_dataset = load_dataset("csv", ...)["train"]
LoadDataset ==
    /\ nbpc = "load"
    /\ \E ds \in SeqsUpTo(Rows, MaxRecs) \ {<<>>} : sagemaker_faqs_dataset' = ds
    /\ nbpc' = "map"
    /\ stages' = Append(stages, "load")
    /\ UNCHANGED <<mapOut, rec, addExc, tokenVars, deployVars, stageExc,
                   nb1Vars>>

\* Variant: a record that _add_text rejects is passed on as it is and the
\* map goes on with the next one.
MapAddTextSkipping ==
    /\ nbpc = "map"
    /\ Len(mapOut) < Len(sagemaker_faqs_dataset)
    /\ LET r == AddText(sagemaker_faqs_dataset[Len(mapOut) + 1]) IN
         /\ rec' = r.rec
         /\ addExc' = r.exc
         /\ mapOut' = Append(mapOut, r.rec)
         /\ nbpc' = "map"
    /\ UNCHANGED <<sagemaker_faqs_dataset, tokenVars, deployVars, stageExc,
                   stages, nb1Vars>>

\* sagemaker_faqs_dataset.map(_add_text) handles the next row.
MapAddText ==
    /\ nbpc = "map"
    /\ Len(mapOut) < Len(sagemaker_faqs_dataset)
    /\ LET r == AddText(sagemaker_faqs_dataset[Len(mapOut) + 1]) IN
         /\ rec' = r.rec
         /\ addExc' = r.exc
         /\ mapOut' = IF r.returned THEN Append(mapOut, r.rec) ELSE mapOut
         /\ nbpc' = IF r.returned THEN "map" ELSE "failed"
    /\ UNCHANGED <<sagemaker_faqs_dataset, tokenVars, deployVars, stageExc,
                   stages, nb1Vars>>

\* sagemaker_faqs_dataset = ... : the name is bound to the mapped dataset.
MapFinish ==
    /\ nbpc = "map"
    /\ Len(mapOut) = Len(sagemaker_faqs_dataset)
    /\ sagemaker_faqs_dataset' = mapOut
    /\ nbpc' = "formatted"
    /\ stages' = Append(stages, "format")
    /\ UNCHANGED <<mapOut, rec, addExc, tokenVars, deployVars, stageExc,
                   nb1Vars>>

(***************************************************************************)
(* Notebook 2, step 3.2: tokenize the dataset and filter it by length.     *)
(***************************************************************************)
MAX_LENGTH == 256

\* The columns that mlu_preprocess_batch returns for a batch.
TokenizerColumns == {"input_ids", "attention_mask"}

\* remove_columns=["instruction", "response", "text"]
RemoveColumns == {"instruction", "response", "text"}

\* Numbers of token ids the tokenizer may return for a record: the shortest
\* text, and the lengths around MAX_LENGTH.
TokenLengths == {1, MAX_LENGTH - 1, MAX_LENGTH, MAX_LENGTH + 1}

\* A list of n token ids (the code reads its length only).
Ids(n) == [i \in 1..n |-> 1]

\* A record of the batched map: the columns of the row that are not removed,
\* and the columns of the tokenizer.
Encode(r, n) ==
    [c \in (DOMAIN r \ RemoveColumns) \cup TokenizerColumns |->
        IF c \in TokenizerColumns THEN Ids(n) ELSE r[c]]

\* Variant: a record of exactly MAX_LENGTH token ids is kept.
KeepsRecordInclusive(r) == Len(r["input_ids"]) <= MAX_LENGTH

\* lambda rec: len(rec["input_ids"]) < MAX_LENGTH
KeepsRecord(r) == Len(r["input_ids"]) < MAX_LENGTH

\* Dataset.filter: the records the function keeps, in their order.
Filter(ds) == SelectSeq(ds, KeepsRecord)

\* encoded_sagemaker_faqs_dataset = sagemaker_faqs_dataset.map(
\*     _preprocessing_function, batched=True, remove_columns=[...])
Tokenize ==
    /\ nbpc = "formatted"
    /\ \E lens \in [DOMAIN sagemaker_faqs_dataset -> TokenLengths] :
          encoded_sagemaker_faqs_dataset' =
             [i \in DOMAIN sagemaker_faqs_dataset |->
                 Encode(sagemaker_faqs_dataset[i], lens[i])]
    /\ nbpc' = "encoded"
    /\ UNCHANGED <<mapVars, processed_dataset, deployVars, stageExc, stages,
                   nb1Vars>>

\* processed_dataset = encoded_sagemaker_faqs_dataset.filter(...)
FilterByLength ==
    /\ nbpc = "encoded"
    /\ processed_dataset' = Filter(encoded_sagemaker_faqs_dataset)
    /\ nbpc' = "processed"
    /\ stages' = Append(stages, "tokenize")
    /\ UNCHANGED <<mapVars, encoded_sagemaker_faqs_dataset, deployVars,
                   stageExc, nb1Vars>>

(***************************************************************************)
(* Notebook 2, steps 4 and 5: split, attach LoRA, train, save.             *)
(***************************************************************************)
\* Paths are sequences of components.
MODEL_SAVE_FOLDER_NAME == <<"dolly-3b-lora">>

AdapterFiles == {<<"adapter_config.json">>, <<"adapter_model.bin">>}

LoraModel == <<"lora_model">>

ArchiveFile == <<"lora_model.tar.gz">>

DeploymentModel == <<"utils", "deployment_model.py">>

\* The working directory is a function from paths to contents.  Content of
\* a directory, of the adapter files that this run's training saves, and of
\* adapter files that an earlier run left.
Dir == "<dir>"

TrainedAdapter == "adapter of this run"

EarlierAdapter == "adapter of an earlier run"

\* No file at all: the function with the empty domain.
NoFiles == [p \in {} |-> Dir]

\* open(path, 'w').write(content)
WriteFile(fs, path, content) ==
    [p \in DOMAIN fs \cup {path} |-> IF p = path THEN content ELSE fs[p]]

\* save_pretrained(folder): the folder is made and the adapter files are
\* written, over the ones that are there.
SavePretrained(fs, folder) ==
    [p \in DOMAIN fs \cup {folder} \cup {folder \o f : f \in AdapterFiles} |->
        IF p = folder THEN Dir
        ELSE IF p \in {folder \o f : f \in AdapterFiles} THEN TrainedAdapter
        ELSE fs[p]]

\* split_dataset = processed_dataset.train_test_split(test_size=14, seed=0).
\* The split needs more records than the datasets followed here have, so
\* its outcome is left open: it returns or it raises.
Split ==
    /\ nbpc = "processed"
    /\ \/ /\ nbpc' = "split"
          /\ stages' = Append(stages, "split")
          /\ UNCHANGED stageExc
       \/ /\ nbpc' = "stopped"
          /\ stageExc' = Raised("ValueError", <<"train_test_split">>)
          /\ UNCHANGED stages
    /\ UNCHANGED <<mapVars, tokenVars, deployVars, nb1Vars>>

\* model = get_peft_model(model, lora_config)
AttachLora ==
    /\ nbpc = "split"
    /\ nbpc' = "peft"
    /\ stages' = Append(stages, "lora")
    /\ UNCHANGED <<mapVars, tokenVars, deployVars, stageExc, nb1Vars>>

\* trainer = Trainer(...); trainer.train(): training ends or raises.
Train ==
    /\ nbpc = "peft"
    /\ \/ /\ nbpc' = "trained"
          /\ stages' = Append(stages, "train")
          /\ UNCHANGED stageExc
       \/ /\ nbpc' = "stopped"
          /\ stageExc' = Raised("RuntimeError", <<"train">>)
          /\ UNCHANGED stages
    /\ UNCHANGED <<mapVars, tokenVars, deployVars, nb1Vars>>

\* trainer.model.save_pretrained(MODEL_SAVE_FOLDER_NAME) writes the adapter
\* configuration and the adapter weights.
SaveAdapter ==
    /\ nbpc = "trained"
    /\ files' = SavePretrained(files, MODEL_SAVE_FOLDER_NAME)
    /\ nbpc' = "saved"
    /\ stages' = Append(stages, "save")
    /\ UNCHANGED <<mapVars, tokenVars, archive, bucket_list, uploads, stageExc,
                   nb1Vars>>

(***************************************************************************)
(* Notebook 2, step 6.2: the model artifact and its upload.                *)
(***************************************************************************)
\* The path lies in the directory, or is the directory.
Under(dir, p) == StartsWith(p, dir)

\* rm -rf dir
RmRf(fs, dir) == [p \in {q \in DOMAIN fs : ~Under(dir, q)} |-> fs[p]]

\* mkdir -p of a directory whose parent exists: nothing changes when the
\* directory is there.
MkdirP(fs, dir) == IF dir \in DOMAIN fs THEN fs ELSE WriteFile(fs, dir, Dir)

\* The directory a path lies in.
Parent(path) == SubSeq(path, 1, Len(path) - 1)

\* cp src dst: the content is copied when src exists and the directory of
\* dst exists; otherwise cp fails and the script goes on.
Cp(fs, src, dst) ==
    IF src \in DOMAIN fs /\ Parent(dst) \in DOMAIN fs
    THEN WriteFile(fs, dst, fs[src])
    ELSE fs

\* %%writefile path: the file is written when its directory exists.
CanWrite(fs, path) == Parent(path) \in DOMAIN fs

\* The members tar puts into the archive: dir and all below it.
Tree(fs, dir) == [p \in {q \in DOMAIN fs : Under(dir, q)} |-> fs[p]]

\* Variant: the cell without its  rm -rf lora_model.
ArtifactDirKeeping(fs) ==
    LET target == LoraModel \o MODEL_SAVE_FOLDER_NAME
        f2 == MkdirP(fs, LoraModel)
        f3 == MkdirP(f2, target)
        f4 == Cp(f3, MODEL_SAVE_FOLDER_NAME \o <<"adapter_config.json">>,
                     target \o <<"adapter_config.json">>)
    IN  Cp(f4, MODEL_SAVE_FOLDER_NAME \o <<"adapter_model.bin">>,
               target \o <<"adapter_model.bin">>)

\* The first %%bash cell of step 6.2, command by command.
ArtifactDir(fs) ==
    LET target == LoraModel \o MODEL_SAVE_FOLDER_NAME
        f1 == RmRf(fs, LoraModel)
        f2 == MkdirP(f1, LoraModel)
        f3 == MkdirP(f2, target)
        f4 == Cp(f3, MODEL_SAVE_FOLDER_NAME \o <<"adapter_config.json">>,
                     target \o <<"adapter_config.json">>)
    IN  Cp(f4, MODEL_SAVE_FOLDER_NAME \o <<"adapter_model.bin">>,
               target \o <<"adapter_model.bin">>)

\* The cell fails when its last command fails: the copy of the weights.
BuildArtifactDir ==
    /\ nbpc = "saved"
    /\ files' = ArtifactDir(files)
    /\ IF MODEL_SAVE_FOLDER_NAME \o <<"adapter_model.bin">> \in DOMAIN files
       THEN /\ nbpc' = "artifact_dir"
            /\ stages' = Append(stages, "artifact_dir")
            /\ UNCHANGED stageExc
       ELSE /\ nbpc' = "stopped"
            /\ stageExc' = Raised("CalledProcessError", <<"cp">>)
            /\ UNCHANGED stages
    /\ UNCHANGED <<mapVars, tokenVars, archive, bucket_list, uploads, nb1Vars>>

\* Number of times the artifact directory cell has completed.
ArtifactRuns == Cardinality({i \in DOMAIN stages : stages[i] = "artifact_dir"})

\* The artifact directory cell is selected again, after it or a later cell
\* of step 6.2 has run; BuildArtifactDir is what runs next.
SelectArtifactCell ==
    /\ nbpc \in {"artifact_dir", "serving", "requirements", "model_py"}
    /\ ArtifactRuns <= MaxReruns
    /\ nbpc' = "saved"
    /\ UNCHANGED <<mapVars, tokenVars, deployVars, stageExc, stages, nb1Vars>>

\* %%writefile lora_model/serving.properties
WriteServingProperties ==
    /\ nbpc = "artifact_dir"
    /\ IF CanWrite(files, LoraModel \o <<"serving.properties">>)
       THEN /\ files' = WriteFile(files, LoraModel \o <<"serving.properties">>,
                                  "serving.properties")
            /\ nbpc' = "serving"
            /\ stages' = Append(stages, "serving.properties")
            /\ UNCHANGED stageExc
       ELSE /\ nbpc' = "stopped"
            /\ stageExc' = Raised("FileNotFoundError", <<"serving.properties">>)
            /\ UNCHANGED <<files, stages>>
    /\ UNCHANGED <<mapVars, tokenVars, archive, bucket_list, uploads, nb1Vars>>

\* %%writefile lora_model/requirements.txt
WriteRequirements ==
    /\ nbpc = "serving"
    /\ IF CanWrite(files, LoraModel \o <<"requirements.txt">>)
       THEN /\ files' = WriteFile(files, LoraModel \o <<"requirements.txt">>,
                                  "requirements.txt")
            /\ nbpc' = "requirements"
            /\ stages' = Append(stages, "requirements.txt")
            /\ UNCHANGED stageExc
       ELSE /\ nbpc' = "stopped"
            /\ stageExc' = Raised("FileNotFoundError", <<"requirements.txt">>)
            /\ UNCHANGED <<files, stages>>
    /\ UNCHANGED <<mapVars, tokenVars, archive, bucket_list, uploads, nb1Vars>>

\* cp utils/deployment_model.py lora_model/model.py
CopyModelPy ==
    /\ nbpc = "requirements"
    /\ files' = Cp(files, DeploymentModel, LoraModel \o <<"model.py">>)
    /\ IF DeploymentModel \in DOMAIN files
       THEN /\ nbpc' = "model_py"
            /\ stages' = Append(stages, "model.py")
            /\ UNCHANGED stageExc
       ELSE /\ nbpc' = "stopped"
            /\ stageExc' = Raised("CalledProcessError", <<"cp">>)
            /\ UNCHANGED stages
    /\ UNCHANGED <<mapVars, tokenVars, archive, bucket_list, uploads, nb1Vars>>

\* Variant: the archive is made before model.py is copied.
TarBeforeModelPy ==
    /\ nbpc = "requirements"
    /\ IF LoraModel \in DOMAIN files
       THEN /\ archive' = Tree(files, LoraModel)
            /\ files' = WriteFile(files, ArchiveFile, "tar.gz")
            /\ nbpc' = "archived"
            /\ stages' = Append(stages, "archive")
            /\ UNCHANGED stageExc
       ELSE /\ nbpc' = "stopped"
            /\ stageExc' = Raised("CalledProcessError", <<"tar">>)
            /\ UNCHANGED <<files, archive, stages>>
    /\ UNCHANGED <<mapVars, tokenVars, bucket_list, uploads, nb1Vars>>

\* tar -cvzf lora_model.tar.gz lora_model/
Tar ==
    /\ nbpc = "model_py"
    /\ IF LoraModel \in DOMAIN files
       THEN /\ archive' = Tree(files, LoraModel)
            /\ files' = WriteFile(files, ArchiveFile, "tar.gz")
            /\ nbpc' = "archived"
            /\ stages' = Append(stages, "archive")
            /\ UNCHANGED stageExc
       ELSE /\ nbpc' = "stopped"
            /\ stageExc' = Raised("CalledProcessError", <<"tar">>)
            /\ UNCHANGED <<files, archive, stages>>
    /\ UNCHANGED <<mapVars, tokenVars, bucket_list, uploads, nb1Vars>>

\* Bucket names, as sequences of characters.
Automate == <<"a", "u", "t", "o", "m", "a", "t", "e">>

BucketNames ==
    { Automate \o <<"-", "1">>, Automate \o <<"-", "2">>,
      <<"d", "a", "t", "a">>, <<"a", "u", "t", "o">>, <<"x">> \o Automate }

\* What list_buckets may answer.
BucketLists == SeqsUpTo(BucketNames, MaxBuckets)

\* The key the archive is uploaded under.
UploadKey == <<"output", "lora_model.tar.gz">>

\* str.strip(chars): the characters of chars are taken off both ends.
RECURSIVE LStrip(_, _)
LStrip(text, chars) ==
    IF text # <<>> /\ Head(text) \in chars
    THEN LStrip(Tail(text), chars)
    ELSE text

RECURSIVE RStrip(_, _)
RStrip(text, chars) ==
    IF text # <<>> /\ text[Len(text)] \in chars
    THEN RStrip(SubSeq(text, 1, Len(text) - 1), chars)
    ELSE text

Strip(text, chars) == RStrip(LStrip(text, chars), chars)

\* bucket['Name'].startswith('automate')
IsAutomate(name) == StartsWith(name, Automate)

\* [bucket['Name'] for bucket in bucket_list['Buckets'] if ...]
AutomateNames(bl) == SelectSeq(bl, IsAutomate)

\* Variant: the last matching bucket is taken.
PickLastBucket(names) == Strip(names[Len(names)], {"'", "[", "]"})

\* bucket_names[0].strip("'[]")
PickBucket(names) == Strip(names[1], {"'", "[", "]"})

\* The last cell: list the buckets, pick one, upload the archive.  An empty
\* bucket_names raises IndexError at bucket_names[0]; upload_file raises when
\* the archive is missing or when S3 refuses the upload.
Upload ==
    /\ nbpc = "archived"
    /\ \E bl \in BucketLists :
          /\ bucket_list' = bl
          /\ IF AutomateNames(bl) = <<>>
             THEN /\ stageExc' = Raised("IndexError", <<"bucket_names[0]">>)
                  /\ nbpc' = "stopped"
                  /\ UNCHANGED <<uploads, stages>>
             ELSE IF ArchiveFile \notin DOMAIN files
             THEN /\ stageExc' = Raised("FileNotFoundError", ArchiveFile)
                  /\ nbpc' = "stopped"
                  /\ UNCHANGED <<uploads, stages>>
             ELSE \/ /\ uploads' = Append(uploads,
                                    [Filename |-> ArchiveFile,
                                     Bucket |-> PickBucket(AutomateNames(bl)),
                                     Key |-> UploadKey,
                                     Body |-> archive])
                     /\ nbpc' = "uploaded"
                     /\ stages' = Append(stages, "upload")
                     /\ UNCHANGED stageExc
                  \/ /\ stageExc' = Raised("S3UploadFailedError", <<>>)
                     /\ nbpc' = "stopped"
                     /\ UNCHANGED <<uploads, stages>>
    /\ UNCHANGED <<mapVars, tokenVars, files, archive, nb1Vars>>

(***************************************************************************)
(* Initial states and specifications.                                      *)
(***************************************************************************)
\* Notebook 2 before any of its cells ran.
\* The working directory before the notebook runs: the files of the
\* repository, with or without the lora_model directory of an earlier run.
RepoFiles ==
    WriteFile(WriteFile(NoFiles, <<"utils">>, Dir),
              DeploymentModel, "deployment_model.py")

\* The same with the lora_model directory that an earlier run left.
StaleFiles ==
    WriteFile(WriteFile(RepoFiles, LoraModel, Dir),
              LoraModel \o <<"model.py">>, "deployment_model.py")

\* Notebook 2 at position, nothing tokenized, saved or uploaded yet.
Notebook2(position) ==
    /\ sagemaker_faqs_dataset = <<>>
    /\ mapOut = <<>>
    /\ rec = [instruction |-> None, response |-> None, text |-> NoText]
    /\ addExc = NoExc
    /\ nbpc = position
    /\ encoded_sagemaker_faqs_dataset = <<>>
    /\ processed_dataset = <<>>
    /\ files \in {RepoFiles, StaleFiles}
    /\ archive = NoFiles
    /\ bucket_list = <<>>
    /\ uploads = <<>>
    /\ stageExc = NoExc
    /\ stages = <<>>

IdleNotebook2 ==
    /\ Notebook2("idle")
    /\ files = RepoFiles

\* Code cell 7 has not run.
CrawlerIdle ==
    /\ crawlerState \in CrawlerStates
    /\ status = "<none>"
    /\ polls = 0
    /\ sleeps = 0
    /\ elapsed = 0
    /\ printed = {}

\* Code cell 7 has run: the crawler started and the first poll read STOPPING.
CrawlerDone ==
    /\ crawlerState = "STOPPING"
    /\ status = "STOPPING"
    /\ polls = 1
    /\ sleeps = 0
    /\ elapsed = 0
    /\ printed = {MsgAbout, MsgStarted, MsgStatus}

\* Notebook 1 about to run the cell at position, the Data Catalog holding g.
Notebook1(position, g) ==
    /\ pc = position
    /\ IF position = "cell7" THEN CrawlerIdle ELSE CrawlerDone
    /\ cellExc = NoExc
    /\ gdc = IF position = "cell9" THEN <<schemaathena>> ELSE <<>>
    /\ glue = g
    /\ glue_catalog = Unassigned
    /\ parseCalls = 0
    /\ query = NoQuery
    /\ generated_texts = <<>>
    /\ idResult = NoResult
    /\ channel = Unbound
    /\ db = Unbound
    /\ response = NoResponse
    /\ llmCalls = 0
    /\ chainRuns = <<>>
    /\ prev = NoPrev

\* A query session of notebook 1, from cell 8 on.
Init ==
    /\ \E tl \in SessionTableLists(schemaathena) :
          Notebook1("cell8", [d \in DbNames |-> tl])
    /\ IdleNotebook2

Next ==
    \/ Cell8
    \/ Cell9
    \/ IdentifyChannelLLM
    \/ IdentifyChannelReturn
    \/ RunChain
    \/ Cell12Again

Spec == Init /\ [][Next]_vars

\* The same session in which the model repeats its completion.
NextPair ==
    \/ Cell8
    \/ Cell9
    \/ ReplayLLM
    \/ ReplayReturn
    \/ RunChain
    \/ ReplayCell12
    \/ RerunCatalogCells

SpecPair == Init /\ [][NextPair]_vars

\* Code cell 7, and cell 8 after it.
InitCrawler ==
    /\ Notebook1("cell7", [d \in DbNames |-> <<>>])
    /\ IdleNotebook2

NextCrawler ==
    \/ Cell7Start
    \/ Cell7Poll
    \/ Cell7Sleep
    \/ CrawlerAdvance
    \/ Cell8

SpecCrawler == InitCrawler /\ [][NextCrawler]_vars

\* Code cell 9 on every catalog of the bounds.
InitCatalog ==
    /\ \E tl \in TableLists(schemaathena) :
          Notebook1("cell9", [d \in DbNames |-> tl])
    /\ IdleNotebook2

NextCatalog == Cell9

SpecCatalog == InitCatalog /\ [][NextCatalog]_vars

\* Notebook 2 at the map over the dataset.
InitFT ==
    /\ Notebook1("cell8", [d \in DbNames |-> <<>>])
    /\ Notebook2("load")

NextFT ==
    \/ LoadDataset
    \/ MapAddText
    \/ MapFinish
    \/ Tokenize
    \/ FilterByLength
    \/ Split
    \/ AttachLora
    \/ Train
    \/ SaveAdapter
    \/ BuildArtifactDir
    \/ WriteServingProperties
    \/ WriteRequirements
    \/ CopyModelPy
    \/ Tar
    \/ Upload

SpecFT == InitFT /\ [][NextFT]_vars

\* Step 6.2 from the artifact directory cell on, the adapter of this run
\* saved.  The files an earlier run of step 6.2 can have left in lora_model:
LeftInRoot ==
    { LoraModel \o <<"serving.properties">>, LoraModel \o <<"requirements.txt">>,
      LoraModel \o <<"model.py">> }

LeftInTarget ==
    { LoraModel \o MODEL_SAVE_FOLDER_NAME \o f : f \in AdapterFiles }

\* Content an earlier run gave the file.
EarlierContent(p) ==
    IF p \in LeftInTarget THEN EarlierAdapter
    ELSE IF p = LoraModel \o <<"model.py">> THEN "deployment_model.py"
    ELSE p[Len(p)]

\* lora_model as an earlier run left it: not at all, or with some of its
\* files.
EarlierTrees ==
    {NoFiles}
    \cup { [p \in {LoraModel} \cup S |-> IF p = LoraModel THEN Dir
                                         ELSE EarlierContent(p)] :
             S \in SUBSET LeftInRoot }
    \cup { [p \in {LoraModel, LoraModel \o MODEL_SAVE_FOLDER_NAME} \cup S |->
               IF p \in {LoraModel, LoraModel \o MODEL_SAVE_FOLDER_NAME}
               THEN Dir ELSE EarlierContent(p)] :
             S \in SUBSET (LeftInRoot \cup LeftInTarget) }

\* One formatted record, tokenized to one id (the dataset plays no part in
\* step 6.2).
SampleRow ==
    [instruction |-> "What is SageMaker?", response |-> "A managed ML service.",
     text |-> Format(PROMPT, "What is SageMaker?", "A managed ML service.")]

InitArtifact ==
    /\ Notebook1("cell8", [d \in DbNames |-> <<>>])
    /\ sagemaker_faqs_dataset = <<SampleRow>>
    /\ mapOut = <<SampleRow>>
    /\ rec = SampleRow
    /\ addExc = NoExc
    /\ nbpc = "saved"
    /\ encoded_sagemaker_faqs_dataset = <<Encode(SampleRow, 1)>>
    /\ processed_dataset = <<Encode(SampleRow, 1)>>
    /\ \E old \in EarlierTrees :
          files = SavePretrained(old @@ RepoFiles, MODEL_SAVE_FOLDER_NAME)
    /\ archive = NoFiles
    /\ bucket_list = <<>>
    /\ uploads = <<>>
    /\ stageExc = NoExc
    /\ stages = <<"load", "format", "tokenize", "split", "lora", "train", "save">>

NextArtifact ==
    \/ BuildArtifactDir
    \/ WriteServingProperties
    \/ WriteRequirements
    \/ CopyModelPy
    \/ SelectArtifactCell

SpecArtifact == InitArtifact /\ [][NextArtifact]_vars

(***************************************************************************)
(* Properties of the channel router.                                       *)
(***************************************************************************)
\* The completion has the characters s, 3 next to each other.
HasS3(text) ==
    \E i \in 1..(Len(text) - 1) : text[i] = "s" /\ text[i + 1] = "3"

\* The completion has the characters a, p, i next to each other.
HasApi(text) ==
    \E i \in 1..(Len(text) - 2) :
        text[i] = "a" /\ text[i + 1] = "p" /\ text[i + 2] = "i"

\* C1: whenever identify_channel has ended on a completion that contains
\* 's3', with or without 'api', it returned ('db', dbathena) and raised
\* nothing, and run_query holds that pair.
C1_S3SelectsWarehouse ==
    (idResult.called /\ HasS3(generated_texts)) =>
        /\ idResult.exc = NoExc
        /\ idResult.channel = "db"
        /\ idResult.db = dbathena
        /\ channel = "db"
        /\ db = dbathena
        /\ pc = "identified" \/ chainRuns # <<>>

\* A completion with both keywords was routed to the warehouse.
C1_Witness ==
    /\ pc = "identified"
    /\ HasS3(generated_texts)
    /\ HasApi(generated_texts)
    /\ idResult.channel = "db"

\* C2: whenever identify_channel has ended on a completion that contains
\* 'api' and not 's3', it returned the label 'api' to run_query.
C2_ApiSelectsSecondary ==
    (idResult.called /\ HasApi(generated_texts) /\ ~HasS3(generated_texts)) =>
        /\ idResult.exc = NoExc
        /\ idResult.channel = "api"
        /\ channel = "api"

\* C3: whenever identify_channel has ended on a completion that contains
\* neither keyword, it raised the Exception with the fixed message, nothing
\* was returned to run_query, and no channel was acted on.
C3_UnmatchedRaises ==
    (idResult.called /\ ~HasS3(generated_texts) /\ ~HasApi(generated_texts)) =>
        /\ idResult.exc = [type |-> "Exception", msg |-> MsgNoChannel]
        /\ cellExc = idResult.exc
        /\ pc = "done"
        /\ channel = Unbound
        /\ db = Unbound
        /\ chainRuns = <<>>
        /\ response = NoResponse

\* A non-empty completion without either keyword made the call raise.
C3_Witness ==
    /\ pc = "done"
    /\ idResult.called
    /\ generated_texts = <<"S", "3", "A", "P", "I">>
    /\ cellExc.type = "Exception"

\* C4: the chain runs only after identify_channel returned; a finished
\* run_query whose channel is 'db' ran the chain exactly once, on the database
\* identify_channel returned, and its response is the chain's; a finished
\* run_query without the channel 'db' ended with an exception, without a
\* response and without a run of the chain.
C4_ChannelThenChain ==
    /\ chainRuns # <<>> => (idResult.called /\ idResult.exc = NoExc)
    /\ pc \in {"cell12", "llm_returned", "identified"} => chainRuns = <<>>
    /\ (pc = "done" /\ channel = "db") =>
          /\ chainRuns = <<idResult.db>>
          /\ cellExc = NoExc => response \in Responses
          /\ cellExc # NoExc => (cellExc.type = "ChainError" /\ response = NoResponse)
    /\ (pc = "done" /\ channel # "db") =>
          /\ cellExc # NoExc
          /\ response = NoResponse
          /\ chainRuns = <<>>

\* run_query returned the chain's response for a question routed to 'db'.
C4_Witness ==
    /\ pc = "done"
    /\ channel = "db"
    /\ chainRuns = <<dbathena>>
    /\ response \in Responses
    /\ cellExc = NoExc

\* C7: when identify_channel has ended on the completion of the recorded
\* call, it ended as the recorded call did (same channel, same database,
\* same exception), whatever the two questions and the two catalogs were.
C7_DecisionDependsOnCompletionOnly ==
    (idResult.called /\ prev.set /\ prev.text = generated_texts) =>
        idResult = prev.result

\* Two calls on one completion, with different questions and catalogs.
C7_Witness ==
    /\ idResult.called
    /\ prev.set
    /\ prev.text = generated_texts
    /\ HasS3(generated_texts)
    /\ prev.query # query
    /\ prev.catalog # glue_catalog

(***************************************************************************)
(* Properties of the catalog string.                                       *)
(***************************************************************************)
\* The columns of the Data Catalog: <<i, j, k>> is column k of table j of
\* the database gdc[i].
Entries ==
    UNION { UNION { { <<i, j, k>> :
                        k \in DOMAIN glue[gdc[i]][j].StorageDescriptor.Columns } :
                    j \in DOMAIN glue[gdc[i]] } :
            i \in DOMAIN gdc }

\* e comes before f: databases first, then tables, then columns.
Before(e, f) ==
    \/ e[1] < f[1]
    \/ e[1] = f[1] /\ e[2] < f[2]
    \/ e[1] = f[1] /\ e[2] = f[2] /\ e[3] < f[3]

Rank(e) == Cardinality({f \in Entries : Before(f, e)}) + 1

\* Line n+1 of the string (the header is line 1), with its leading newline.
EntryLine(str, n) == SubSeq(str, 6 * n, 6 * n + 5)

\* C5: the string parse_catalog returned starts with the header
\* 'database|table|column_name', has one line per column of the catalog
\* (1 + number of columns lines in all, duplicates included), and the line
\* of each column is 'database|table|column', in the order of the source.
C5_CatalogString ==
    (pc = "cell12" /\ cellExc = NoExc) =>
        /\ SubSeq(glue_catalog, 1, 5) =
               <<"database", "|", "table", "|", "column_name">>
        /\ Len(glue_catalog) = 5 + 6 * Cardinality(Entries)
        /\ Cardinality({p \in DOMAIN glue_catalog : glue_catalog[p] = "\n"})
               = Cardinality(Entries)
        /\ \A e \in Entries :
               LET t == glue[gdc[e[1]]][e[2]] IN
               EntryLine(glue_catalog, Rank(e)) =
                   <<"\n", gdc[e[1]], "|", t.Name, "|",
                     t.StorageDescriptor.Columns[e[3]].Name>>

\* Two tables that give the same triple: the string has three lines.
C5_Witness ==
    /\ pc = "cell12"
    /\ cellExc = NoExc
    /\ Len(glue[schemaathena]) = 2
    /\ glue[schemaathena][1] = glue[schemaathena][2]
    /\ Cardinality(Entries) = 2
    /\ Len(glue_catalog) = 17

\* C6: parse_catalog is called at most once, and no step of run_query or
\* identify_channel changes glue_catalog or calls parse_catalog.
C6_CatalogReadOnly ==
    /\ [](parseCalls <= 1)
    /\ [][(pc \in {"cell12", "llm_returned", "identified", "done"}) =>
            (glue_catalog' = glue_catalog /\ parseCalls' = parseCalls)]_vars

\* identify_channel raised after the catalog was built, and the catalog stands.
C6_Witness ==
    /\ pc = "done"
    /\ cellExc.type = "UnboundLocalError"
    /\ parseCalls = 1
    /\ glue_catalog # Unassigned

(***************************************************************************)
(* Properties of _add_text.                                                *)
(***************************************************************************)
\* C8: a call of _add_text that raised was given a record whose instruction
\* or response is None or empty, raised ValueError and added no 'text'; a
\* call that returned was given a record with both fields, returned the
\* record with 'text' set to the filled template and with its instruction
\* and response unchanged.
C8_AddText ==
    /\ nbpc = "failed" =>
          LET given == sagemaker_faqs_dataset[Len(mapOut) + 1] IN
          /\ given.instruction \in {None, ""} \/ given.response \in {None, ""}
          /\ addExc.type = "ValueError"
          /\ rec = given
          /\ rec.text = NoText
    /\ (nbpc = "map" /\ mapOut # <<>>) =>
          LET given == sagemaker_faqs_dataset[Len(mapOut)] IN
          /\ given.instruction \notin {None, ""}
          /\ given.response \notin {None, ""}
          /\ addExc = NoExc
          /\ mapOut[Len(mapOut)] = rec
          /\ rec.instruction = given.instruction
          /\ rec.response = given.response
          /\ rec.text = <<"intro", "instruction_key", given.instruction,
                          "response_key", given.response, "end_key">>

\* A record was formatted and the next one, without a response, raised.
C8_Witness ==
    /\ nbpc = "failed"
    /\ Len(mapOut) = 1
    /\ sagemaker_faqs_dataset[2].instruction \notin {None, ""}
    /\ sagemaker_faqs_dataset[2].response = ""

\* C19: _add_text tests the instruction before the response.  A record that
\* lacks the instruction raises 'Expected an instruction', whether or not it
\* has a response; 'Expected a response' is raised only for a record that
\* has an instruction and lacks the response.
C19_InstructionCheckedFirst ==
    nbpc = "failed" =>
      LET given == sagemaker_faqs_dataset[Len(mapOut) + 1] IN
      /\ Falsy(given.instruction) =>
            addExc = Raised("ValueError", <<"Expected an instruction in: ">>)
      /\ addExc = Raised("ValueError", <<"Expected a response in: ">>) =>
            (~Falsy(given.instruction) /\ Falsy(given.response))
      /\ addExc.msg \in {<<"Expected an instruction in: ">>,
                          <<"Expected a response in: ">>}

\* The first record has neither field and the instruction is reported.
C19_Witness ==
    /\ nbpc = "failed"
    /\ mapOut = <<>>
    /\ sagemaker_faqs_dataset[1].instruction = None
    /\ sagemaker_faqs_dataset[1].response = ""
    /\ addExc = Raised("ValueError", <<"Expected an instruction in: ">>)

(***************************************************************************)
(* Properties of the map over the dataset.                                 *)
(***************************************************************************)
\* _add_text rejects the record.
Malformed(r) == Falsy(r.instruction) \/ Falsy(r.response)

\* C14: the map stops at the first record that _add_text rejects.  The
\* records before it were formatted, no record after it is handled, the
\* ValueError leaves the map, and sagemaker_faqs_dataset is still the
\* dataset without any 'text'.
C14_MapStopsAtFirstMalformed ==
    /\ addExc # NoExc => nbpc = "failed"
    /\ nbpc = "failed" =>
          LET k == Len(mapOut) + 1 IN
          /\ k \in DOMAIN sagemaker_faqs_dataset
          /\ Malformed(sagemaker_faqs_dataset[k])
          /\ \A i \in 1..(k - 1) :
                /\ ~Malformed(sagemaker_faqs_dataset[i])
                /\ mapOut[i].text # NoText
          /\ addExc.type = "ValueError"
          /\ \A i \in DOMAIN sagemaker_faqs_dataset :
                sagemaker_faqs_dataset[i].text = NoText
    /\ nbpc = "formatted" =>
          \A i \in DOMAIN sagemaker_faqs_dataset :
             sagemaker_faqs_dataset[i].text # NoText

\* The first record is rejected and the well-formed one after it is never
\* handled.
C14_Witness ==
    /\ nbpc = "failed"
    /\ Len(sagemaker_faqs_dataset) = 2
    /\ mapOut = <<>>
    /\ Malformed(sagemaker_faqs_dataset[1])
    /\ ~Malformed(sagemaker_faqs_dataset[2])
    /\ sagemaker_faqs_dataset[2].text = NoText

(***************************************************************************)
(* Properties of code cell 7.                                              *)
(***************************************************************************)
StartFailed == MsgAbout \in printed /\ MsgStarted \notin printed

\* C9: once start_crawler has failed, the message of the handler is printed,
\* no exception has left the cell, get_crawler was never called and the
\* kernel is at the cells that follow.
C9_StartFailureCaught ==
    /\ cellExc = NoExc
    /\ StartFailed =>
          /\ MsgError \in printed
          /\ polls = 0
          /\ sleeps = 0
          /\ status = "<none>"
          /\ pc \in {"cell8", "cell9"}

\* The start failed and code cell 8 ran after it.
C9_Witness ==
    /\ StartFailed
    /\ pc = "cell9"
    /\ gdc = <<schemaathena>>

\* C10: every sleep lasts 10 seconds; every poll that read a status other
\* than STOPPING was followed by a sleep and another poll, however many
\* polls were made; a loop that ended without an error ended on the first
\* poll that read STOPPING.
C10_FixedIntervalPolling ==
    /\ elapsed = 10 * sleeps
    /\ pc = "sleeping" =>
          (status \in {"RUNNING", "READY"} /\ sleeps = polls - 1)
    /\ pc = "polling" =>
          (sleeps = polls /\ (polls > 0 => status \in {"RUNNING", "READY"}))
    /\ (pc \in {"cell8", "cell9"} /\ MsgStarted \in printed
            /\ MsgError \notin printed) =>
          (status = "STOPPING" /\ sleeps = polls - 1)

\* The loop is still polling after the crawler went back to READY.
C10_Witness ==
    /\ pc = "polling"
    /\ status = "READY"
    /\ polls >= 3
    /\ elapsed = 10 * polls

(***************************************************************************)
(* Properties of run_query as a whole.                                     *)
(***************************************************************************)
\* The failures a run_query call can end with.
RunQueryFailures ==
    {"NameError", "BedrockError", "Exception", "UnboundLocalError", "ChainError"}

C15_NormalReturnIsDb ==
    /\ (idResult.called /\ idResult.exc = NoExc) =>
          (idResult.channel = "db" /\ idResult.db = dbathena)
    /\ pc = "identified" =>
          (idResult.called /\ idResult.exc = NoExc /\ channel = "db"
             /\ db = dbathena)
    /\ channel \in {Unbound, "db"}
    /\ db \in {Unbound, dbathena}

\* identify_channel returned on a completion that names both s3 and api.
C15_Witness ==
    /\ pc = "identified"
    /\ HasS3(generated_texts)
    /\ HasApi(generated_texts)
    /\ idResult.called
    /\ idResult.exc = NoExc
    /\ channel = "db"
    /\ db = dbathena

\* The keyword stands inside a longer completion.
Embedded(key, text) == Contains(key, text) /\ Len(text) > Len(key)

\* The completion names a channel in some other casing only.
OnlyOtherCase(text) ==
    /\ ~HasS3(text)
    /\ ~HasApi(text)
    /\ \/ Contains(KeyS3, Lower(text))
       \/ Contains(KeyApi, Lower(text))

\* C18: the two tests are case-sensitive substring tests on the raw
\* completion.  A completion that names the channels only in another casing
\* ('S3', 'API') matches neither and raises the unmatched-channel exception;
\* 's3' inside a longer completion selects the warehouse channel and 'api'
\* inside a longer completion without 's3' takes the 'api' branch.
C18_CaseSensitiveSubstring ==
    idResult.called =>
      /\ OnlyOtherCase(generated_texts) =>
            /\ idResult.exc = Raised("Exception", MsgNoChannel)
            /\ idResult.channel = Unbound
      /\ Embedded(KeyS3, generated_texts) =>
            (idResult.channel = "db" /\ idResult.exc = NoExc)
      /\ (Embedded(KeyApi, generated_texts) /\ ~HasS3(generated_texts)) =>
            (idResult.channel = "api"
               /\ idResult.exc # Raised("Exception", MsgNoChannel))

\* 'API' then 'S3', upper case only: no channel is matched.
C18_Witness ==
    /\ idResult.called
    /\ generated_texts = <<"A", "P", "I", "S", "3">>
    /\ idResult.exc = Raised("Exception", MsgNoChannel)
    /\ pc = "done"

\* 'api' inside a longer word takes the 'api' branch.
C18_WitnessEmbedded ==
    /\ idResult.called
    /\ generated_texts = <<"c", "a", "p", "i", "c">>
    /\ idResult.channel = "api"

(***************************************************************************)
(* Properties of the polling loop of code cell 7.                          *)
(***************************************************************************)
\* The crawler was started and the handler's message was printed afterwards:
\* a call inside the polling loop raised.
PollFailed == MsgStarted \in printed /\ MsgError \in printed

\* C17: an exception raised while polling is caught by the same bare except
\* as a failed start: 'error in starting crawler' is printed, the loop is
\* over, nothing is raised out of the cell and the notebook goes on, although
\* STOPPING was never read.
C17_PollFailureCaught ==
    /\ cellExc = NoExc
    /\ PollFailed =>
          /\ pc \in {"cell8", "cell9"}
          /\ status # "STOPPING"
          /\ polls >= 1
          /\ sleeps = polls - 1
    /\ (pc \in {"cell8", "cell9"} /\ MsgStarted \in printed
          /\ status # "STOPPING") => MsgError \in printed

\* The third get_crawler call raised while the crawler was still running.
C17_Witness ==
    /\ PollFailed
    /\ pc = "cell8"
    /\ polls = 3
    /\ status = "RUNNING"
    /\ cellExc = NoExc

\* The loop of cell 7 is running.
InLoop == pc \in {"polling", "sleeping"}

\* Once the crawler is back at READY while the loop runs, no get_crawler call
\* that succeeds ends the loop: the crawler stays READY and the loop goes on
\* unless a call raises.
ReadyIsAbsorbing ==
    [][(InLoop /\ crawlerState = "READY") =>
          /\ crawlerState' = "READY"
          /\ (InLoop' \/ MsgError \in printed')]_vars

\* C16: after a successful start the polling loop ends once the crawler run
\* completes, every get_crawler call succeeding.  Stated on the finite runs:
\* while the loop runs, the crawler has not yet completed its run, so that
\* the STOPPING the loop waits for can still be read.
C16_LoopEndsWhenCrawlerCompletes ==
    InLoop => crawlerState # "READY"

(***************************************************************************)
(* Properties of the tokenized dataset.                                    *)
(***************************************************************************)
\* The filter has run.
Filtered == nbpc \notin {"load", "map", "failed", "formatted", "encoded"}

\* The record has fewer than 256 token ids.
Short(r) == Len(r["input_ids"]) + 1 <= 256

\* C13: every record of processed_dataset has fewer than 256 input ids; the
\* filter keeps a tokenized record exactly when it has fewer than 256, so a
\* record of exactly 256 is dropped, and keeps the order; no record of the
\* tokenized dataset has an instruction, response or text column.
C13_ProcessedBelowMaxLength ==
    /\ \A i \in DOMAIN processed_dataset :
          Len(processed_dataset[i]["input_ids"]) < 256
    /\ Filtered =>
          /\ processed_dataset = SelectSeq(encoded_sagemaker_faqs_dataset, Short)
          /\ \A i \in DOMAIN encoded_sagemaker_faqs_dataset :
                LET r == encoded_sagemaker_faqs_dataset[i] IN
                /\ Len(r["input_ids"]) = 256 =>
                      \A j \in DOMAIN processed_dataset :
                         Len(processed_dataset[j]["input_ids"]) # 256
                /\ Len(r["input_ids"]) = 255 =>
                      \E j \in DOMAIN processed_dataset :
                         processed_dataset[j] = r
    /\ \A i \in DOMAIN encoded_sagemaker_faqs_dataset :
          /\ DOMAIN encoded_sagemaker_faqs_dataset[i]
                \cap {"instruction", "response", "text"} = {}
          /\ "input_ids" \in DOMAIN encoded_sagemaker_faqs_dataset[i]

\* A record of 256 token ids is dropped and the record of 255 after it is
\* kept.
C13_Witness ==
    /\ nbpc = "processed"
    /\ Len(encoded_sagemaker_faqs_dataset) = 2
    /\ Len(encoded_sagemaker_faqs_dataset[1]["input_ids"]) = 256
    /\ Len(encoded_sagemaker_faqs_dataset[2]["input_ids"]) = 255
    /\ processed_dataset = <<encoded_sagemaker_faqs_dataset[2]>>

(***************************************************************************)
(* Properties of the order of notebook 2 and of the upload.                *)
(***************************************************************************)
\* The stages of notebook 2, in the order of its cells.
StageOrder ==
    <<"load", "format", "tokenize", "split", "lora", "train", "save",
      "artifact_dir", "serving.properties", "requirements.txt", "model.py",
      "archive", "upload">>

\* What the archive is to hold.
ArtifactFiles ==
    { <<"lora_model", "dolly-3b-lora", "adapter_config.json">>,
      <<"lora_model", "dolly-3b-lora", "adapter_model.bin">>,
      <<"lora_model", "serving.properties">>,
      <<"lora_model", "requirements.txt">>,
      <<"lora_model", "model.py">> }

\* C12: the stages of notebook 2 complete in the order of its cells, each
\* after the one before it.  The archive is uploaded only once it exists, and
\* it is made only after the adapter was saved and copied and the three
\* other files were put into lora_model, so that it holds all five.
C12_StagesInOrder ==
    /\ stages = SubSeq(StageOrder, 1, Len(stages))
    /\ Len(uploads) <= 1
    /\ uploads # <<>> =>
          /\ <<"lora_model.tar.gz">> \in DOMAIN files
          /\ uploads[1].Body = archive
          /\ stages = StageOrder
    /\ <<"lora_model.tar.gz">> \in DOMAIN files =>
          /\ <<"dolly-3b-lora", "adapter_model.bin">> \in DOMAIN files
          /\ <<"dolly-3b-lora", "adapter_config.json">> \in DOMAIN files
          /\ ArtifactFiles \subseteq DOMAIN files
          /\ ArtifactFiles \subseteq DOMAIN archive
          /\ Len(stages) >= 12
    /\ <<"lora_model.tar.gz">> \notin DOMAIN files =>
          (DOMAIN archive = {} /\ uploads = <<>>)

\* Every stage completed and the archive was uploaded.
C12_Witness ==
    /\ nbpc = "uploaded"
    /\ stages = StageOrder
    /\ Len(uploads) = 1
    /\ ArtifactFiles \subseteq DOMAIN uploads[1].Body

\* The last cell has listed the buckets.
ListedBuckets == nbpc \in {"uploaded", "stopped"} /\ Len(stages) >= 12

\* C20: the archive is uploaded to the first bucket, in the order of
\* list_buckets, whose name starts with 'automate', under the key
\* output/lora_model.tar.gz.  When no bucket name starts with 'automate' the
\* cell fails with IndexError before upload_file is called and nothing is
\* uploaded.
C20_UploadToFirstAutomateBucket ==
    /\ nbpc = "uploaded" =>
          \E k \in DOMAIN bucket_list :
             /\ StartsWith(bucket_list[k], Automate)
             /\ \A j \in 1..(k - 1) : ~StartsWith(bucket_list[j], Automate)
             /\ Len(uploads) = 1
             /\ uploads[1].Bucket = bucket_list[k]
             /\ uploads[1].Key = <<"output", "lora_model.tar.gz">>
             /\ uploads[1].Filename = <<"lora_model.tar.gz">>
    /\ (ListedBuckets
          /\ \A k \in DOMAIN bucket_list : ~StartsWith(bucket_list[k], Automate))
         => /\ nbpc = "stopped"
            /\ stageExc.type = "IndexError"
            /\ uploads = <<>>
    /\ uploads # <<>> => nbpc = "uploaded"

\* Two buckets match and the first of the list, not of the alphabet, is
\* taken.
C20_Witness ==
    /\ nbpc = "uploaded"
    /\ bucket_list = <<Automate \o <<"-", "2">>, Automate \o <<"-", "1">>>>
    /\ uploads[1].Bucket = Automate \o <<"-", "2">>

\* Buckets are listed and none matches: IndexError, nothing uploaded.
C20_WitnessNoBucket ==
    /\ nbpc = "stopped"
    /\ bucket_list = <<<<"x">> \o Automate, <<"a", "u", "t", "o">>>>
    /\ stageExc.type = "IndexError"
    /\ uploads = <<>>

(***************************************************************************)
(* Properties of the artifact directory cell.                              *)
(***************************************************************************)
\* The paths in or below dir.
Below(dir) == {p \in DOMAIN files : StartsWith(p, dir) /\ p # dir}

\* The artifact directory cell has completed and no later cell has run
\* since.
JustBuilt == nbpc = "artifact_dir"

\* C21: the artifact directory cell deletes lora_model before it makes it
\* again.  After every run of the cell, the first or a later one,
\* lora_model holds the directory dolly-3b-lora and nothing else, and that
\* directory holds exactly adapter_config.json and adapter_model.bin with the
\* content of the files in dolly-3b-lora; serving.properties,
\* requirements.txt and model.py of an earlier run are gone, and each is back
\* only once its cell has run again.  Running the cell once more changes
\* nothing.  Whatever has run since, lora_model/dolly-3b-lora holds exactly
\* the two files.
C21_ArtifactDirIdempotent ==
    /\ JustBuilt =>
          /\ Below(<<"lora_model">>) =
                { <<"lora_model", "dolly-3b-lora">>,
                  <<"lora_model", "dolly-3b-lora", "adapter_config.json">>,
                  <<"lora_model", "dolly-3b-lora", "adapter_model.bin">> }
          /\ ArtifactDir(files) = files
    /\ nbpc \in {"artifact_dir", "serving", "requirements", "model_py"} =>
          /\ Below(<<"lora_model", "dolly-3b-lora">>) =
                { <<"lora_model", "dolly-3b-lora", "adapter_config.json">>,
                  <<"lora_model", "dolly-3b-lora", "adapter_model.bin">> }
          /\ files[<<"lora_model", "dolly-3b-lora", "adapter_config.json">>]
                = files[<<"dolly-3b-lora", "adapter_config.json">>]
          /\ files[<<"lora_model", "dolly-3b-lora", "adapter_model.bin">>]
                = files[<<"dolly-3b-lora", "adapter_model.bin">>]
          /\ <<"lora_model", "serving.properties">> \in DOMAIN files
                <=> nbpc \in {"serving", "requirements", "model_py"}
          /\ <<"lora_model", "requirements.txt">> \in DOMAIN files
                <=> nbpc \in {"requirements", "model_py"}
          /\ <<"lora_model", "model.py">> \in DOMAIN files
                <=> nbpc = "model_py"

\* The cell ran a second time after serving.properties, requirements.txt
\* and model.py had been put into lora_model: they are gone.
C21_Witness ==
    /\ JustBuilt
    /\ ArtifactRuns = 2
    /\ \E i \in DOMAIN stages : stages[i] = "model.py"
    /\ <<"lora_model", "model.py">> \notin DOMAIN files
    /\ <<"lora_model", "serving.properties">> \notin DOMAIN files

(***************************************************************************)
(* Properties of the classification lookup of parse_catalog.               *)
(***************************************************************************)
\* The table as a crawled S3 table without parameters: its classification
\* is 's3' whatever it was.
AsS3Table(t) ==
    [t EXCEPT !.StorageDescriptor.Location = <<"s", "3", ":", "/", "/">>,
              !.Parameters = {}]

\* The catalog has a table whose location does not start with 's3' and whose
\* parameters have no 'classification'.
SomeTableUnclassified ==
    \E i \in DOMAIN gdc : \E j \in DOMAIN glue[gdc[i]] :
       LET t == glue[gdc[i]][j] IN
       /\ SubSeq(t.StorageDescriptor.Location, 1, 2) # <<"s", "3">>
       /\ \A kv \in t.Parameters : kv[1] # "classification"

\* C22: the classification of a table has no part in the string: the string
\* parse_catalog returns is the one it returns when every table is an S3
\* table.  parse_catalog fails, with KeyError, exactly when some table has a
\* location that does not start with 's3' and no 'classification' parameter;
\* then nothing is returned and glue_catalog stays unassigned, whatever lines
\* the tables before had given.
C22_ClassificationOnlyFails ==
    pc = "cell12" =>
      /\ cellExc # NoExc <=> SomeTableUnclassified
      /\ cellExc # NoExc =>
            /\ cellExc = Raised("KeyError", <<"classification">>)
            /\ glue_catalog = <<"<undefined>">>
      /\ cellExc = NoExc =>
            /\ glue_catalog # <<"<undefined>">>
            /\ glue_catalog =
                  ParseTableList(
                     [j \in DOMAIN glue[gdc[1]] |-> AsS3Table(glue[gdc[1]][j])],
                     [exc |-> NoExc, columns_str |-> Header]).columns_str

\* An S3 table with a column comes first and a table without classification
\* second: KeyError, and glue_catalog is not assigned.
C22_Witness ==
    /\ pc = "cell12"
    /\ Len(glue[schemaathena]) = 2
    /\ glue[schemaathena][1].StorageDescriptor.Location = S3Location
    /\ glue[schemaathena][1].StorageDescriptor.Columns # <<>>
    /\ glue[schemaathena][2].StorageDescriptor.Location = JdbcLocation
    /\ glue[schemaathena][2].Parameters = {}
    /\ cellExc.type = "KeyError"
    /\ glue_catalog = Unassigned

\* A JDBC table with a classification gives the lines an S3 table gives.
C22_WitnessClassified ==
    /\ pc = "cell12"
    /\ cellExc = NoExc
    /\ Len(glue[schemaathena]) = 1
    /\ glue[schemaathena][1].StorageDescriptor.Location = JdbcLocation
    /\ Len(glue_catalog) = 11

====
